---- MODULE Spec2Model ----
(***************************************************************************)
(* Model of the tasks plug of SilverBullet (src/plugs/tasks/task.ts):      *)
(* task indexing (indexTasks), the state cycle engine with its             *)
(* cross-reference resolver (taskCycleAtPos / cycleTaskState) and the      *)
(* query provider (queryProvider).                                         *)
(*                                                                         *)
(* Page text is a TLA+ string and every offset is a 0-based character      *)
(* offset, as in the source.  The markdown parser, the tree helpers and    *)
(* the attribute grammar live outside src/; they are modelled by a small   *)
(* line grammar: a line is a list item, a line that starts (after its      *)
(* indentation) with "[" token "]" is a Task, deeper-indented lines that   *)
(* follow it are its nested siblings.  The calendar glyph U+1F4C5 is       *)
(* written "~".                                                            *)
(***************************************************************************)
EXTENDS Integers, Sequences, FiniteSets, TLC

\* ------------------------------------------------------------------------
\* JavaScript string primitives used by task.ts, on TLA+ strings
\* ------------------------------------------------------------------------
Max(a, b) == IF a >= b THEN a ELSE b

Min(a, b) == IF a <= b THEN a ELSE b

\* s.charAt(i), i 0-based
charAt(s, i) == IF i < 0 \/ i >= Len(s) THEN "" ELSE SubSeq(s, i + 1, i + 1)

\* s.substring(a, b): 0-based, end exclusive, both ends clamped to the string
substring(s, a, b) ==
  LET lo == Min(Max(a, 0), Len(s))
      hi == Min(Max(b, 0), Len(s))
  IN  SubSeq(s, Min(lo, hi) + 1, Max(lo, hi))

RECURSIVE indexOfFrom(_, _, _)
\* s.indexOf(sub, i): first 0-based index >= i where sub occurs, or -1
indexOfFrom(s, sub, i) ==
  IF i + Len(sub) > Len(s) THEN -1
  ELSE IF SubSeq(s, i + 1, i + Len(sub)) = sub THEN i
  ELSE indexOfFrom(s, sub, i + 1)

\* s.includes(sub)
includes(s, sub) == indexOfFrom(s, sub, 0) # -1

RECURSIVE split(_, _)
\* s.split(sep) for a non-empty separator
split(s, sep) ==
  LET i == indexOfFrom(s, sep, 0)
  IN  IF i = -1 THEN <<s>>
      ELSE <<SubSeq(s, 1, i)>> \o split(SubSeq(s, i + Len(sep) + 1, Len(s)), sep)

IsSpace(c) == c \in {" ", "\n"}

RECURSIVE trimStart(_)
trimStart(s) ==
  IF Len(s) > 0 /\ IsSpace(charAt(s, 0)) THEN trimStart(SubSeq(s, 2, Len(s))) ELSE s

RECURSIVE trimEnd(_)
trimEnd(s) ==
  IF Len(s) > 0 /\ IsSpace(charAt(s, Len(s) - 1))
  THEN trimEnd(SubSeq(s, 1, Len(s) - 1)) ELSE s

\* s.trim()
trim(s) == trimEnd(trimStart(s))

Digits == "0123456789"

IsDigit(c) == Len(c) = 1 /\ includes(Digits, c)

RECURSIVE numToString(_)
\* `${n}` for a natural number
numToString(n) ==
  IF n < 10 THEN charAt(Digits, n)
  ELSE numToString(n \div 10) \o charAt(Digits, n % 10)

RECURSIVE toNumber(_)
\* unary plus on a string of decimal digits (+"" is 0)
toNumber(s) ==
  IF Len(s) = 0 THEN 0
  ELSE toNumber(SubSeq(s, 1, Len(s) - 1)) * 10
       + indexOfFrom(Digits, charAt(s, Len(s) - 1), 0)

RECURSIVE allDigits(_)
allDigits(s) ==
  IF Len(s) = 0 THEN TRUE
  ELSE IsDigit(charAt(s, 0)) /\ allDigits(SubSeq(s, 2, Len(s)))

\* The characters of the model in UTF-16 code unit order (the order of the
\* default Array.prototype.sort comparison).
Alphabet == "\n !#-/0123456789:@AXZ[]abcdefghijklmnopqrstuvwxyz~"

code(c) == indexOfFrom(Alphabet, c, 0)

RECURSIVE strLess(_, _)
\* a < b as JavaScript strings
strLess(a, b) ==
  IF Len(b) = 0 THEN FALSE
  ELSE IF Len(a) = 0 THEN TRUE
  ELSE IF charAt(a, 0) = charAt(b, 0)
       THEN strLess(SubSeq(a, 2, Len(a)), SubSeq(b, 2, Len(b)))
       ELSE code(charAt(a, 0)) < code(charAt(b, 0))

RECURSIVE insertSorted(_, _)
insertSorted(x, seq) ==
  IF seq = <<>> THEN <<x>>
  ELSE IF strLess(seq[1], x) THEN <<seq[1]>> \o insertSorted(x, Tail(seq))
  ELSE <<x>> \o seq

RECURSIVE sort(_)
\* states.sort()
sort(seq) == IF seq = <<>> THEN <<>> ELSE insertSorted(seq[1], sort(Tail(seq)))

RECURSIVE dedupe(_)
\* [...new Set(seq)]: first occurrences, in order
dedupe(seq) ==
  IF seq = <<>> THEN <<>>
  ELSE LET init == dedupe(SubSeq(seq, 1, Len(seq) - 1))
           last == seq[Len(seq)]
       IN  IF \E i \in 1..Len(init) : init[i] = last THEN init
           ELSE Append(init, last)

\* array.map(f), for f given as a function on the positions of the array
map(f) == f \o <<>>

\* array.indexOf(x): 0-based, -1 when absent
arrayIndexOf(seq, x) ==
  IF \E i \in 1..Len(seq) : seq[i] = x
  THEN (CHOOSE i \in 1..Len(seq) :
          seq[i] = x /\ \A j \in 1..(i - 1) : seq[j] # x) - 1
  ELSE -1

\* ------------------------------------------------------------------------
\* The markdown tree (markdown.parseMarkdown and the tree helpers)
\* ------------------------------------------------------------------------
Glyph == "~"

\* end (exclusive) of the line that contains offset ls
lineEnd(t, ls) ==
  LET j == indexOfFrom(t, "\n", ls) IN IF j = -1 THEN Len(t) ELSE j

RECURSIVE indentOf(_, _)
indentOf(t, i) == IF charAt(t, i) = " " THEN 1 + indentOf(t, i + 1) ELSE 0

\* the line starting at ls is a Task: indentation, "[", a non-empty state
\* token without "]", then "]"
isTaskLine(t, ls) ==
  LET b == ls + indentOf(t, ls)
      close == indexOfFrom(t, "]", b + 1)
  IN  /\ charAt(t, b) = "["
      /\ charAt(t, b + 1) # "["
      /\ close # -1
      /\ close > b + 1
      /\ close < lineEnd(t, ls)

RECURSIVE nestedEnd(_, _, _)
\* end of the deeper-indented lines that follow the line ending at le
nestedEnd(t, le, ind) ==
  IF le >= Len(t) THEN le
  ELSE IF indentOf(t, le + 1) > ind
       THEN nestedEnd(t, lineEnd(t, le + 1), ind)
       ELSE le

\* The Task node of the line starting at ls.  [from, to) is the Task,
\* [from, sto + 1) its TaskState child, [sfrom, sto) the state text
\* (node.children[1] of the TaskState), [to, nto) the siblings that follow
\* the Task in its list item.
taskNode(t, ls) ==
  LET b == ls + indentOf(t, ls)
      close == indexOfFrom(t, "]", b + 1)
      le == lineEnd(t, ls)
  IN  [from |-> b, to |-> le, sfrom |-> b + 1, sto |-> close,
       state |-> substring(t, b + 1, close),
       nto |-> nestedEnd(t, le, indentOf(t, ls))]

RECURSIVE tasksFrom(_, _)
tasksFrom(t, ls) ==
  LET le == lineEnd(t, ls)
      rest == IF le >= Len(t) THEN <<>> ELSE tasksFrom(t, le + 1)
  IN  IF isTaskLine(t, ls) THEN <<taskNode(t, ls)>> \o rest ELSE rest

\* the Task nodes of parseMarkdown(t), in document order
parseTasks(t) == tasksFrom(t, 0)

\* first offset >= i that holds white space, or e
wordEnd(t, i, e) ==
  IF \E j \in i..(e - 1) : IsSpace(charAt(t, j))
  THEN CHOOSE j \in i..(e - 1) :
         IsSpace(charAt(t, j)) /\ \A k \in i..(j - 1) : ~IsSpace(charAt(t, k))
  ELSE e

RECURSIVE skipSpaces(_, _, _)
skipSpaces(t, i, e) ==
  IF i < e /\ charAt(t, i) = " " THEN skipSpaces(t, i + 1, e) ELSE i

IsLetter(c) == Len(c) = 1 /\ includes("abcdefghijklmnopqrstuvwxyz", c)

RECURSIVE allLetters(_)
allLetters(s) ==
  IF Len(s) = 0 THEN TRUE
  ELSE IsLetter(charAt(s, 0)) /\ allLetters(SubSeq(s, 2, Len(s)))

\* an attribute "name:: value" starts at offset i
isAttributeAt(t, i, e) ==
  LET k == indexOfFrom(t, "::", i)
  IN  /\ k # -1
      /\ k > i
      /\ allLetters(substring(t, i, k))
      /\ charAt(t, k + 2) = " "
      /\ wordEnd(t, k + 3, e) > k + 3
      /\ k + 3 < e

RECURSIVE inlineNodes(_, _, _)
\* The children of a Task after its TaskState, for the text [i, e): wiki
\* links "[[ref]]", hashtags "#tag", deadlines Glyph \s* date, attributes
\* "name:: value"; every other character is a text leaf.
inlineNodes(t, i, e) ==
  IF i >= e THEN <<>>
  ELSE
    LET c == charAt(t, i)
        close2 == indexOfFrom(t, "]]", i + 2)
        node(type, to) == [type |-> type, from |-> i, to |-> to,
                           text |-> substring(t, i, to)]
        k == indexOfFrom(t, "::", i)
        end == IF substring(t, i, i + 2) = "[[" /\ close2 # -1 /\ close2 + 2 <= e
                 THEN <<"WikiLink", close2 + 2>>
               ELSE IF c = "#" THEN <<"Hashtag", wordEnd(t, i, e)>>
               ELSE IF c = Glyph
                 THEN <<"DeadlineDate", wordEnd(t, skipSpaces(t, i + 1, e), e)>>
               ELSE IF isAttributeAt(t, i, e)
                 THEN <<"Attribute", wordEnd(t, k + 3, e)>>
               ELSE <<"text", i + 1>>
    IN  <<node(end[1], end[2])>> \o inlineNodes(t, end[2], e)

\* children.slice(1) of a Task node
taskChildren(t, task) == inlineNodes(t, task.sto + 1, task.to)

\* the node for a child kid of task i that covers pos
nodeOfChild(kid, pos, i) ==
  IF kid.type = "text" THEN [type |-> "Task", task |-> i]
  ELSE IF kid.type = "WikiLink" /\ pos >= kid.from + 2 /\ pos < kid.to - 2
       THEN [type |-> "WikiLinkPage", task |-> i]
  ELSE [type |-> kid.type, task |-> i]

\* the node at pos inside the Task tk, the i-th of the document, whose
\* children after the TaskState are kids
nodeOfTask(tk, kids, pos, i) ==
  LET at == {j \in 1..Len(kids) : kids[j].from <= pos /\ pos < kids[j].to}
  IN  IF pos = tk.from \/ pos = tk.sto THEN [type |-> "TaskMarker", task |-> i]
      ELSE IF pos < tk.sto THEN [type |-> "TaskState", task |-> i]
      ELSE IF at = {} THEN [type |-> "Task", task |-> i]
      ELSE nodeOfChild(kids[CHOOSE j \in at : TRUE], pos, i)

\* the node at pos of the text t whose Task nodes are tasks
nodeAmong(t, tasks, pos) ==
  LET hit == {i \in 1..Len(tasks) : tasks[i].from <= pos /\ pos < tasks[i].to}
      i == CHOOSE j \in hit : TRUE
  IN  IF pos < 0 \/ pos >= Len(t) THEN [type |-> "null", task |-> 0]
      ELSE IF hit = {} THEN [type |-> "Paragraph", task |-> 0]
      ELSE nodeOfTask(tasks[i], taskChildren(t, tasks[i]), pos, i)

\* nodeAtPos(tree, pos): the type of the innermost non-text node that covers
\* pos and the task it belongs to (0 when outside every task); type "null"
\* when pos is outside the document.
nodeAtPos(t, pos) == nodeAmong(t, parseTasks(t), pos)

\* ------------------------------------------------------------------------
\* State
\* ------------------------------------------------------------------------
VARIABLES
  currentPage,  \* editor.getCurrentPage()
  buffer,       \* editor.getText(): the text of the open page
  pages,        \* space: page name -> stored text
  store,        \* index store: <<page, key>> -> value
  pc,           \* position of the cycleTaskState call: "idle", "loop", "remote"
  pageName,     \* cycleTaskState: parameter pageName
  stateText,    \* cycleTaskState: stateText
  changeTo,     \* cycleTaskState: changeTo
  wikiLinks,    \* cycleTaskState: refs of parentWikiLinks, in document order
  li,           \* cycleTaskState: 1-based position of the for loop
  readText,     \* cycleTaskState: text returned by space.readPage
  log,          \* effects of the latest cycle call, in order
  hist,         \* one entry per cycleTaskState call that chose a successor
  passes,       \* per page, what the last two indexTasks passes wrote
  result,       \* the records queryProvider handed to applyQuery
  handlers,     \* MQHook.apply: handler objects registered with system.on
  loadedPlugs,  \* system.loadedPlugs: names of the loaded plugs, in order
  subscriptions,\* MQHook.subscriptions: the unsubscribe callbacks held
  subscribed,   \* the queue's side: every subscription ever created
  mqLog         \* plug invocations, acknowledgements and logged errors

vars == <<currentPage, buffer, pages, store, pc, pageName, stateText, changeTo,
          wikiLinks, li, readText, log, hist, passes, result,
          handlers, loadedPlugs, subscriptions, subscribed, mqLog>>

\* the state of the message queue hook and of the system it is applied to
mqVars == <<handlers, loadedPlugs, subscriptions, subscribed, mqLog>>

cycleVars == <<pc, pageName, stateText, changeTo, wikiLinks, li, readText>>

Pages == {"p1", "p2", "p3"}

\* ------------------------------------------------------------------------
\* Index store syscalls (index.batchSet, index.queryPrefix)
\* ------------------------------------------------------------------------
\* index.batchSet(page, kvs) applied to the store st: every key of kvs is
\* set under the page, a later entry of kvs winning over an earlier one
batchSetOn(st, page, kvs) ==
  LET new == {<<page, kvs[i].key>> : i \in 1..Len(kvs)}
      lastOf(k) == CHOOSE i \in 1..Len(kvs) :
                     /\ kvs[i].key = k[2]
                     /\ \A j \in (i + 1)..Len(kvs) : kvs[j].key # k[2]
  IN  [k \in new |-> kvs[lastOf(k)].value] @@ st

startsWith(s, prefix) == substring(s, 0, Len(prefix)) = prefix

RECURSIVE setToSeq(_)
setToSeq(S) ==
  IF S = {} THEN <<>>
  ELSE LET m == CHOOSE a \in S : TRUE IN <<m>> \o setToSeq(S \ {m})

\* index.queryPrefix(prefix): the records of all pages whose key starts
\* with the prefix, annotated with their page
queryPrefix(prefix) ==
  LET hits == setToSeq({k \in DOMAIN store : startsWith(k[2], prefix)})
  IN  map([i \in 1..Len(hits) |->
            [key |-> hits[i][2], page |-> hits[i][1], value |-> store[hits[i]]]])

\* ------------------------------------------------------------------------
\* cycleTaskState: choice of the successor state (task.ts 140-161)
\* ------------------------------------------------------------------------
completeStates == <<"x", "X">>

incompleteStates == <<" ">>

arrayIncludes(seq, v) == \E i \in 1..Len(seq) : seq[i] = v

\* s.key.split(":")[1]
stateOfKey(key) == split(key, ":")[2]

\* states, after states.sort()
knownStates ==
  LET allStates == queryPrefix("taskState:")
  IN  sort(dedupe(map([i \in 1..Len(allStates) |->
                            stateOfKey(allStates[i].key)])))

\* customSuccessor without the check of currentStateIndex === -1
customSuccessor_noCheck(states, st) ==
  LET currentStateIndex == arrayIndexOf(states, st)
      nextStateIndex == (currentStateIndex + 1) % Len(states)
  IN  [unknown |-> FALSE, changeTo |-> states[nextStateIndex + 1]]

\* Lines 148-160 for the custom state text st and the sorted states: unknown
\* when st is not among them (console.error, return), else the next of them
customSuccessor(states, st) ==
  LET currentStateIndex == arrayIndexOf(states, st)
      nextStateIndex == (currentStateIndex + 1) % Len(states)
  IN  IF currentStateIndex = -1 THEN [unknown |-> TRUE, changeTo |-> ""]
      ELSE [unknown |-> FALSE, changeTo |-> states[nextStateIndex + 1]]

\* nextState with the incomplete state toggled to the upper-case mark
nextState_upperCase(st) ==
  IF arrayIncludes(completeStates, st) THEN [unknown |-> FALSE, changeTo |-> " "]
  ELSE IF arrayIncludes(incompleteStates, st)
  THEN [unknown |-> FALSE, changeTo |-> "X"]
  ELSE customSuccessor(knownStates, st)

\* Lines 140-161 for the state text st: the choice of changeTo
nextState(st) ==
  IF arrayIncludes(completeStates, st) THEN [unknown |-> FALSE, changeTo |-> " "]
  ELSE IF arrayIncludes(incompleteStates, st)
  THEN [unknown |-> FALSE, changeTo |-> "x"]
  ELSE customSuccessor(knownStates, st)

\* ------------------------------------------------------------------------
\* Effects
\* ------------------------------------------------------------------------
\* a change that inserts without removing [from, to)
applyChange_insertOnly(s, from, to, insert) ==
  substring(s, 0, from) \o insert \o substring(s, from, Len(s))

\* editor.dispatch({changes: {from, to, insert}}) on text s
applyChange(s, from, to, insert) ==
  substring(s, 0, from) \o insert \o substring(s, to, Len(s))

\* An entry of log.  link is the 1-based position of the wiki link the
\* effect belongs to (0: the owning occurrence); before is the text the
\* effect was decided on.
effect(op, link, page, from, to, text, before) ==
  [op |-> op, link |-> link, page |-> page, from |-> from, to |-> to,
   text |-> text, before |-> before]

RECURSIVE refsFrom_lastFirst(_, _)
\* the refs of the WikiLinkPage nodes among kids[i..], the last one first
refsFrom_lastFirst(kids, i) ==
  IF i > Len(kids) THEN <<>>
  ELSE IF kids[i].type = "WikiLink"
       THEN refsFrom_lastFirst(kids, i + 1)
            \o <<substring(kids[i].text, 2, Len(kids[i].text) - 2)>>
       ELSE refsFrom_lastFirst(kids, i + 1)

RECURSIVE refsFrom(_, _)
\* the refs of the WikiLinkPage nodes among kids[i..], in document order
refsFrom(kids, i) ==
  IF i > Len(kids) THEN <<>>
  ELSE IF kids[i].type = "WikiLink"
       THEN <<substring(kids[i].text, 2, Len(kids[i].text) - 2)>>
            \o refsFrom(kids, i + 1)
       ELSE refsFrom(kids, i + 1)

\* refs of collectNodesMatching(node.parent, n => n.type === "WikiLinkPage")
wikiLinkRefs(t, task) == refsFrom(taskChildren(t, task), 1)

\* ------------------------------------------------------------------------
\* The state cycle engine (task.ts 136-237)
\* ------------------------------------------------------------------------
MaxCycles == 2

\* where the for loop stands after the link at position i was handled
loopPc(links, i) == IF i > Len(links) THEN "idle" ELSE "loop"

\* cycleTaskState(name, node) up to its first suspension inside the loop;
\* text is the editor text the node was parsed from, task its Task node
cycleTaskState(name, text, task) ==
  \E chosen \in {nextState(task.state)} :
    IF chosen.unknown
    THEN /\ log' = <<effect("error", 0, name, task.sfrom, task.sto,
                            "Unknown state", text)>>
         /\ UNCHANGED <<buffer, pages, hist, cycleVars>>
    ELSE /\ buffer' = applyChange(buffer, task.sfrom, task.sto, chosen.changeTo)
         /\ log' = <<effect("dispatch", 0, name, task.sfrom, task.sto,
                            chosen.changeTo, buffer)>>
         /\ hist' = Append(hist, [from |-> task.from, stateText |-> task.state,
                                  changeTo |-> chosen.changeTo])
         /\ pageName' = name
         /\ stateText' = task.state
         /\ changeTo' = chosen.changeTo
         /\ wikiLinks' = wikiLinkRefs(text, task)
         /\ li' = 1
         /\ pc' = loopPc(wikiLinks', 1)
         /\ UNCHANGED <<pages, readText>>

\* taskCycleAtPos, were a click that meets no task state announced like
\* the command's
taskCycleAtPos_notifies(pos) ==
  /\ pc = "idle"
  /\ Len(hist) < MaxCycles
  /\ \E n \in {nodeAtPos(buffer, pos)} :
       LET node == IF n.type = "TaskMarker"
                   THEN [type |-> "TaskState", task |-> n.task] ELSE n
       IN  IF node.type = "TaskState"
           THEN \E task \in {parseTasks(buffer)[node.task]} :
                  cycleTaskState(currentPage, buffer, task)
           ELSE /\ log' = <<effect("flashNotification", 0, currentPage, pos,
                                   pos, "No task at cursor", buffer)>>
                /\ UNCHANGED <<buffer, pages, hist, cycleVars>>
  /\ UNCHANGED <<currentPage, store, passes, result, mqVars>>

\* taskCycleAtPos(pageName, pos), called by taskToggle / previewTaskToggle
\* with the open page
taskCycleAtPos(pos) ==
  /\ pc = "idle"
  /\ Len(hist) < MaxCycles
  /\ \E n \in {nodeAtPos(buffer, pos)} :
       LET node == IF n.type = "TaskMarker"
                   THEN [type |-> "TaskState", task |-> n.task] ELSE n
       IN  IF node.type = "TaskState"
           THEN \E task \in {parseTasks(buffer)[node.task]} :
                  cycleTaskState(currentPage, buffer, task)
           ELSE /\ log' = <<>>
                /\ UNCHANGED <<buffer, pages, hist, cycleVars>>
  /\ UNCHANGED <<currentPage, store, passes, result, mqVars>>

\* the node taskCycleCommand goes on with: the node at the cursor, or the
\* node one offset back when the cursor stands on a line break, which belongs
\* to the enclosing BulletList or Document
nodeAtCursor(t, pos) ==
  IF pos >= 0 /\ pos < Len(t) /\ charAt(t, pos) = "\n"
  THEN nodeAtPos(t, pos - 1)
  ELSE nodeAtPos(t, pos)

\* taskCycleCommand(): the command, run with the cursor at offset cursor.
\* Without a node, or without an enclosing Task, it flashes a notification;
\* every Task of the grammar has a TaskState child.
taskCycleCommand(cursor) ==
  /\ pc = "idle"
  /\ Len(hist) < MaxCycles
  /\ \E node \in {nodeAtCursor(buffer, cursor)} :
       IF node.task = 0
       THEN /\ log' = <<effect("flashNotification", 0, currentPage, cursor,
                               cursor, "No task at cursor", buffer)>>
            /\ UNCHANGED <<buffer, pages, hist, cycleVars>>
       ELSE \E task \in {parseTasks(buffer)[node.task]} :
              cycleTaskState(currentPage, buffer, task)
  /\ UNCHANGED <<currentPage, store, passes, result, mqVars>>

\* one iteration of `for (const wikiLink of parentWikiLinks)`, up to the
\* await of space.readPage for a link into another page
processWikiLink ==
  /\ pc = "loop"
  /\ LET ref == wikiLinks[li] IN
     IF ~includes(ref, "@")
     THEN /\ li' = li + 1
          /\ pc' = loopPc(wikiLinks, li + 1)
          /\ UNCHANGED <<buffer, readText, log>>
     ELSE
       LET page == split(ref, "@")[1]
           pos == toNumber(split(ref, "@")[2])
       IN
       IF page = pageName
       THEN LET editorText == buffer
                targetText == substring(editorText, pos + 1,
                                        pos + 1 + Len(stateText))
            IN  IF targetText # stateText
                THEN /\ log' = Append(log, effect("error", li, page, pos + 1,
                                 pos + 1 + Len(stateText),
                                 "Reference not a task marker, out of date?",
                                 editorText))
                     /\ pc' = "idle"
                     /\ UNCHANGED <<buffer, readText, li>>
                ELSE /\ buffer' = applyChange(buffer, pos + 1,
                                     pos + 1 + Len(stateText), changeTo)
                     /\ log' = Append(log, effect("dispatch", li, page, pos + 1,
                                 pos + 1 + Len(stateText), changeTo, editorText))
                     /\ li' = li + 1
                     /\ pc' = loopPc(wikiLinks, li + 1)
                     /\ UNCHANGED readText
       ELSE /\ page \in DOMAIN pages
            /\ readText' = pages[page]
            /\ pc' = "remote"
            /\ UNCHANGED <<buffer, li, log>>
  /\ UNCHANGED <<currentPage, pages, store, pageName, stateText, changeTo,
                 wikiLinks, hist, passes, result, mqVars>>

\* the rest of the iteration, were the record of the task written back to
\* the index next to the page
writeReference_updatesIndex ==
  /\ pc = "remote"
  /\ LET ref == wikiLinks[li]
         page == split(ref, "@")[1]
         pos == toNumber(split(ref, "@")[2])
     IN  \E taskStateNode \in {nodeAtPos(readText, pos + 1)} :
         IF taskStateNode.type # "TaskState"
         THEN /\ log' = Append(log, effect("error", li, page, pos + 1, pos + 1,
                          "Reference not a task marker, out of date?", readText))
              /\ pc' = "idle"
              /\ UNCHANGED <<pages, li, store>>
         ELSE \E task \in {parseTasks(readText)[taskStateNode.task]} :
              LET text == applyChange(readText, task.sfrom, task.sto, changeTo)
              IN  /\ pages' = [pages EXCEPT ![page] = text]
                  /\ store' = batchSetOn(store, page,
                                 <<[key |-> "task:" \o numToString(task.from),
                                    value |-> [state |-> changeTo]]>>)
                  /\ log' = log \o
                       <<effect("writePage", li, page, task.sfrom, task.sto,
                                text, readText),
                         effect("scheduleFileSync", li, page \o ".md", 0, 0,
                                "", readText)>>
                  /\ li' = li + 1
                  /\ pc' = loopPc(wikiLinks, li + 1)
  /\ UNCHANGED <<currentPage, buffer, pageName, stateText, changeTo,
                 wikiLinks, readText, hist, passes, result, mqVars>>

\* the rest of the iteration for a link into another page: parse the text
\* read, check the node at pos + 1, write the page back, schedule its sync
writeReference ==
  /\ pc = "remote"
  /\ LET ref == wikiLinks[li]
         page == split(ref, "@")[1]
         pos == toNumber(split(ref, "@")[2])
     IN  \E taskStateNode \in {nodeAtPos(readText, pos + 1)} :
         IF taskStateNode.type # "TaskState"
         THEN /\ log' = Append(log, effect("error", li, page, pos + 1, pos + 1,
                          "Reference not a task marker, out of date?", readText))
              /\ pc' = "idle"
              /\ UNCHANGED <<pages, li>>
         ELSE \E task \in {parseTasks(readText)[taskStateNode.task]} :
              LET text == applyChange(readText, task.sfrom, task.sto, changeTo)
              IN  /\ pages' = [pages EXCEPT ![page] = text]
                  /\ log' = log \o
                       <<effect("writePage", li, page, task.sfrom, task.sto,
                                text, readText),
                         effect("scheduleFileSync", li, page \o ".md", 0, 0,
                                "", readText)>>
                  /\ li' = li + 1
                  /\ pc' = loopPc(wikiLinks, li + 1)
  /\ UNCHANGED <<currentPage, buffer, store, pageName, stateText, changeTo,
                 wikiLinks, readText, hist, passes, result, mqVars>>

\* space.readPage throws for a link into another page: nothing catches the
\* error, cycleTaskState ends there
readPageFails ==
  /\ pc = "loop"
  /\ includes(wikiLinks[li], "@")
  /\ LET page == split(wikiLinks[li], "@")[1]
         pos == toNumber(split(wikiLinks[li], "@")[2])
     IN  /\ page # pageName
         /\ log' = Append(log, effect("throw", li, page, pos + 1, pos + 1,
                                      "readPage", buffer))
  /\ pc' = "idle"
  /\ UNCHANGED <<currentPage, buffer, pages, store, pageName, stateText, changeTo,
                 wikiLinks, li, readText, hist, passes, result, mqVars>>

\* space.writePage throws for a link whose target is a task state: the page
\* keeps its text, no sync is scheduled, cycleTaskState ends there
writePageFails ==
  /\ pc = "remote"
  /\ LET page == split(wikiLinks[li], "@")[1]
         pos == toNumber(split(wikiLinks[li], "@")[2])
     IN  /\ nodeAtPos(readText, pos + 1).type = "TaskState"
         /\ log' = Append(log, effect("throw", li, page, pos + 1, pos + 1,
                                      "writePage", readText))
  /\ pc' = "idle"
  /\ UNCHANGED <<currentPage, buffer, pages, store, pageName, stateText, changeTo,
                 wikiLinks, li, readText, hist, passes, result, mqVars>>

\* ------------------------------------------------------------------------
\* indexTasks (task.ts 38-120)
\* ------------------------------------------------------------------------
RECURSIVE skipWhite(_, _)
skipWhite(t, i) ==
  IF i < Len(t) /\ IsSpace(charAt(t, i)) THEN skipWhite(t, i + 1) ELSE i

\* getDeadline: text.replace(/Glyph\s*/, "")
getDeadline(text) ==
  LET i == indexOfFrom(text, Glyph, 0)
  IN  IF i = -1 THEN text
      ELSE substring(text, 0, i) \o substring(text, skipWhite(text, i + 1), Len(text))

\* task[key] = value
setField(rec, key, value) ==
  [f \in (DOMAIN rec) \cup {key} |-> IF f = key THEN value ELSE rec[f]]

\* resolvePath(containerPage, ref) of rewritePageRefs: a local ref on a
\* federated page ("!host/...") gets the host of its page
resolvePath(container, ref) ==
  IF charAt(container, 0) = "!" /\ charAt(ref, 0) # "!"
  THEN split(container, "/")[1] \o "/" \o ref
  ELSE ref

\* rewritePageRefs(n, name) on one child of the task
rewritePageRef(name, node) ==
  IF node.type = "WikiLink"
  THEN [node EXCEPT !.text =
          "[[" \o resolvePath(name, substring(node.text, 2, Len(node.text) - 2))
               \o "]]"]
  ELSE node

RECURSIVE replaceNodesMatching(_, _, _)
\* replaceNodesMatching(n, ...) of indexTasks over the children kids[i..]:
\* a DeadlineDate sets task.deadline and is removed, a Hashtag is pushed
\* to task.tags and stays.  Yields the task and the children that remain.
replaceNodesMatching(task, kids, i) ==
  IF i > Len(kids) THEN [task |-> task, kids |-> <<>>]
  ELSE
    LET n == kids[i] IN
    IF n.type = "DeadlineDate"
    THEN replaceNodesMatching(setField(task, "deadline", getDeadline(n.text)),
                              kids, i + 1)
    ELSE LET t2 == IF n.type = "Hashtag"
                   THEN setField(task, "tags",
                          Append(IF "tags" \in DOMAIN task THEN task.tags ELSE <<>>,
                                 substring(n.text, 1, Len(n.text))))
                   ELSE task
             rest == replaceNodesMatching(t2, kids, i + 1)
         IN  [task |-> rest.task, kids |-> <<n>> \o rest.kids]

\* the value of an attribute: booleans and numbers are typed, the rest is text
attributeValue(v) ==
  IF v = "true" THEN TRUE
  ELSE IF v = "false" THEN FALSE
  ELSE IF allDigits(v) THEN toNumber(v)
  ELSE v

attributeName(text) == split(text, "::")[1]

RECURSIVE extractAttributes(_, _)
\* extractAttributes(n, true) over the children kids[1..i]: the attributes
\* found (a later one of the same name wins) and the children left
extractAttributes(kids, i) ==
  IF i = 0 THEN [attrs |-> <<>>, kids |-> <<>>]
  ELSE
    LET before == extractAttributes(kids, i - 1)
        n == kids[i]
        name == attributeName(n.text)
        value == attributeValue(substring(n.text, Len(name) + 3, Len(n.text)))
        others == SelectSeq(before.attrs, LAMBDA a : a.key # name)
    IN  IF n.type = "Attribute"
        THEN [attrs |-> Append(others, [key |-> name, value |-> value]),
              kids |-> before.kids]
        ELSE [attrs |-> before.attrs, kids |-> Append(before.kids, n)]

RECURSIVE assignAll(_, _, _)
\* for (const [key, value] of Object.entries(attrs)) task[key] = value
assignAll(task, attrs, i) ==
  IF i > Len(attrs) THEN task
  ELSE assignAll(setField(task, attrs[i].key, attrs[i].value), attrs, i + 1)

RECURSIVE renderAll(_)
\* nodes.map(renderToText).join("")
renderAll(nodes) ==
  IF nodes = <<>> THEN "" ELSE nodes[1].text \o renderAll(Tail(nodes))

\* rewritePageRefs(n, name) over the children of the task
rewritePageRefs(name, kids) ==
  map([i \in 1..Len(kids) |-> rewritePageRef(name, kids[i])])

\* Lines 91-104: the attributes are assigned to the task, then its name is
\* rendered from the children left, then the nested items are attached
finishTask(task, r2, t, n) ==
  LET task3 == setField(assignAll(task, r2.attrs, 1), "name",
                        trim(renderAll(r2.kids)))
  IN  [task |-> IF n.nto > n.to
                THEN setField(task3, "nested", trim(substring(t, n.to, n.nto)))
                ELSE task3,
       attrs |-> r2.attrs]

\* Lines 90-104 for the task and children r1 left by replaceNodesMatching
extractAndFinish(r1, t, n) ==
  finishTask(r1.task, extractAttributes(r1.kids, Len(r1.kids)), t, n)

\* the visitor of indexTasks for one Task node n of page `name`: the record
\* of the task and the attributes extracted from it
visitTask(name, t, n) ==
  extractAndFinish(
    replaceNodesMatching(
      [name |-> "", done |-> arrayIncludes(completeStates, n.state),
       state |-> n.state],
      rewritePageRefs(name, taskChildren(t, n)), 1),
    t, n)

\* the record of Task node n
taskRecord(name, t, n) == visitTask(name, t, n).task

\* the visits of the Task nodes, in document order
taskVisits(name, t, nodes) ==
  map([i \in 1..Len(nodes) |-> visitTask(name, t, nodes[i])])

\* tasks keyed by the offset of the outermost task they belong to: a task
\* nested in the list item of the task before it takes that task's offset
taskEntries_keyedByItem(nodes, visits) ==
  map([i \in 1..Len(nodes) |->
        [key |-> "task:" \o numToString(IF i > 1 /\ nodes[i].to <= nodes[i - 1].nto
                                        THEN nodes[i - 1].from ELSE nodes[i].from),
         value |-> visits[i].task]])

\* tasks: {key: `task:${n.from}`, value: task} per Task node, in order
taskEntries(nodes, visits) ==
  map([i \in 1..Len(nodes) |->
        [key |-> "task:" \o numToString(nodes[i].from), value |-> visits[i].task]])

RECURSIVE taskStatesAfter_countComplete(_, _)
\* taskStatesAfter that counts every state but the incomplete one
taskStatesAfter_countComplete(tasks, n) ==
  IF n = 0 THEN <<>>
  ELSE
    LET m == taskStatesAfter_countComplete(tasks, n - 1)
        state == tasks[n].state
    IN  IF ~arrayIncludes(incompleteStates, state)
        THEN IF ~\E i \in 1..Len(m) : m[i].state = state
             THEN Append(m, [state |-> state, count |-> 1])
             ELSE map([i \in 1..Len(m) |->
                         IF m[i].state = state
                         THEN [state |-> state, count |-> m[i].count + 1]
                         ELSE m[i]])
        ELSE m

RECURSIVE taskStatesAfter(_, _)
\* the Map taskStates after the first n tasks, entries in insertion order
taskStatesAfter(tasks, n) ==
  IF n = 0 THEN <<>>
  ELSE
    LET m == taskStatesAfter(tasks, n - 1)
        state == tasks[n].state
    IN  IF ~arrayIncludes(incompleteStates, state)
           /\ ~arrayIncludes(completeStates, state)
        THEN IF ~\E i \in 1..Len(m) : m[i].state = state
             THEN Append(m, [state |-> state, count |-> 1])
             ELSE map([i \in 1..Len(m) |->
                         IF m[i].state = state
                         THEN [state |-> state, count |-> m[i].count + 1]
                         ELSE m[i]])
        ELSE m

\* taskStateEntries that adds the counts to those the store holds
taskStateEntries_accumulate(name, m) ==
  map([i \in 1..Len(m) |->
        [key |-> "taskState:" \o m[i].state,
         value |-> m[i].count +
                   (IF <<name, "taskState:" \o m[i].state>> \in DOMAIN store
                    THEN store[<<name, "taskState:" \o m[i].state>>] ELSE 0)]])

\* Array.from(taskStates.entries()).map(...): the taskState: records of
\* the page for the Map m
taskStateEntries(name, m) ==
  map([i \in 1..Len(m) |->
        [key |-> "taskState:" \o m[i].state, value |-> m[i].count]])

RECURSIVE allAttributesAfter(_, _)
\* allAttributes after the first n tasks
allAttributesAfter(visits, n) ==
  IF n = 0 THEN <<>>
  ELSE SelectSeq(allAttributesAfter(visits, n - 1),
                 LAMBDA a : ~\E j \in 1..Len(visits[n].attrs) :
                                visits[n].attrs[j].key = a.key)
       \o visits[n].attrs

\* indexAttributes(name, allAttributes, "task"): one record per attribute
\* name under the page
attributeEntries(all) ==
  map([i \in 1..Len(all) |->
        [key |-> "attr:task:" \o all[i].key, value |-> "task"]])

\* the three batches of one pass, for the Task nodes and their visits
batchesOf(name, nodes, visits) ==
  [tasks |-> taskEntries(nodes, visits),
   attrs |-> attributeEntries(allAttributesAfter(visits, Len(visits))),
   states |-> taskStateEntries(name, taskStatesAfter(nodes, Len(nodes)))]

\* the traversal of the Task nodes of the text t
traverse(name, t, nodes) == batchesOf(name, nodes, taskVisits(name, t, nodes))

\* the batches of one indexTasks pass over the text t of page `name`
indexBatches(name, t) == traverse(name, t, parseTasks(t))

MaxPasses == 2

RECURSIVE sumLen(_, _)
sumLen(f, S) ==
  IF S = {} THEN 0
  ELSE LET p == CHOOSE q \in S : TRUE IN Len(f[p]) + sumLen(f, S \ {p})

\* the index passes run so far
passCount == sumLen(passes, Pages)

\* the three writes of one pass: the task records, the attribute index,
\* the state frequencies
writeBatches(st, name, b) ==
  batchSetOn(batchSetOn(batchSetOn(st, name, b.tasks), name, b.attrs),
             name, b.states)

\* the store after one indexTasks pass over text t
indexPass(st, name, t) == writeBatches(st, name, indexBatches(name, t))

\* indexTasks({name, tree}) for the stored text of page `name`
indexTasks(name) ==
  /\ pc = "idle"
  /\ passCount < MaxPasses
  /\ \E b \in {indexBatches(name, pages[name])} :
       /\ store' = writeBatches(store, name, b)
       /\ passes' = [passes EXCEPT ![name] =
                       Append(@, [text |-> pages[name], tasks |-> b.tasks,
                                  attrs |-> b.attrs, states |-> b.states])]
  /\ UNCHANGED <<currentPage, buffer, pages, log, hist, result, cycleVars, mqVars>>

\* the writes of a pass of which the failing-th throws, were the three
\* writes issued together and not one after the other
writeBatchesBefore_together(st, name, b, failing) ==
  LET one == IF failing = 1 THEN st ELSE batchSetOn(st, name, b.tasks)
      two == IF failing = 2 THEN one ELSE batchSetOn(one, name, b.attrs)
  IN  IF failing = 3 THEN two ELSE batchSetOn(two, name, b.states)

\* the writes of a pass of which the failing-th throws: each write is
\* awaited before the next is issued, the failing one writes nothing
writeBatchesBefore(st, name, b, failing) ==
  IF failing = 1 THEN st
  ELSE IF failing = 2 THEN batchSetOn(st, name, b.tasks)
  ELSE batchSetOn(batchSetOn(st, name, b.tasks), name, b.attrs)

\* indexTasks({name, tree}) when the failing-th of its three index writes
\* (batchSet of the tasks, indexAttributes, batchSet of the states) throws:
\* nothing catches the error, the pass ends there
indexTasksFails(name, failing) ==
  /\ pc = "idle"
  /\ passCount < MaxPasses
  /\ \E b \in {indexBatches(name, pages[name])} :
       /\ store' = writeBatchesBefore(store, name, b, failing)
       /\ passes' = [passes EXCEPT ![name] =
                       Append(@, [text |-> pages[name], tasks |-> b.tasks,
                                  attrs |-> b.attrs, states |-> b.states,
                                  failed |-> failing])]
  /\ UNCHANGED <<currentPage, buffer, pages, log, hist, result, cycleVars, mqVars>>

\* ------------------------------------------------------------------------
\* queryProvider (task.ts 322-336)
\* ------------------------------------------------------------------------
\* decorate with the stored value spread last: {page, pos: +pos, ...value}
decorate_valueLast(r) ==
  [f \in (DOMAIN r.value) \cup {"page", "pos"} |->
     IF f \in DOMAIN r.value THEN r.value[f]
     ELSE IF f = "page" THEN r.page
     ELSE toNumber(split(r.key, ":")[2])]

\* {...value, page: page, pos: +pos}
decorate(r) ==
  setField(setField(r.value, "page", r.page), "pos", toNumber(split(r.key, ":")[2]))

\* allTasks, as handed to applyQuery
allTasks ==
  LET found == queryPrefix("task:")
  IN  map([i \in 1..Len(found) |-> decorate(found[i])])

queryProvider ==
  /\ pc = "idle"
  /\ result' = allTasks
  /\ UNCHANGED <<currentPage, buffer, pages, store, log, hist, passes, cycleVars,
                 mqVars>>

\* ------------------------------------------------------------------------
\* The cycle engine on an open page that refers to tasks of other pages
\* ------------------------------------------------------------------------
MaxLinks == 2

\* clicks fall on the offsets 0..MaxPos of the open page
MaxPos == 7

\* state tokens of the task that is cycled
OwnerTokens == {" ", "x", "X", "-", "!", "a:b"}

\* state tokens of the other tasks
OtherTokens == {"x", "-"}

\* wiki link targets: a page, the task of p2, a place of p2 that holds no
\* task state, the first task of the open page
Refs == {"p2", "p2@0", "p2@2", "p1@0"}

LinkSeqs == UNION {[1..n -> Refs] : n \in 0..MaxLinks}

RECURSIVE renderLinks(_)
renderLinks(refs) ==
  IF refs = <<>> THEN ""
  ELSE " [[" \o refs[1] \o "]]" \o renderLinks(Tail(refs))

\* texts of p3, a page that only contributes custom states to the index
VocabularyDocs == {"[-]\n[/]\n[!]", "[a:b]\n[c]"}

RECURSIVE indexOfPages(_, _)
\* the index of the stored pages ps, after a pass over each page of S
indexOfPages(ps, S) ==
  IF S = {} THEN <<>>
  ELSE LET p == CHOOSE q \in S : TRUE
       IN  indexPass(indexOfPages(ps, S \ {p}), p, ps[p])

idleCycle ==
  /\ pc = "idle"
  /\ pageName = ""
  /\ stateText = ""
  /\ changeTo = ""
  /\ wikiLinks = <<>>
  /\ li = 1
  /\ readText = ""
  /\ log = <<>>
  /\ hist = <<>>

\* new MQHook(system, mq) on a system without plugs: no handler registered,
\* no subscription held
mqIdle ==
  /\ handlers = 0
  /\ loadedPlugs = <<>>
  /\ subscriptions = <<>>
  /\ subscribed = <<>>
  /\ mqLog = <<>>

\* The open page p1 holds a task and, below it, the task that is cycled with
\* its wiki links; its stored text is the buffer or still empty; the index
\* is that of the stored pages.
Init ==
  /\ currentPage = "p1"
  /\ \E t1 \in OtherTokens, tok \in OwnerTokens, refs \in LinkSeqs :
       buffer = "[" \o t1 \o "]\n[" \o tok \o "]" \o renderLinks(refs)
  /\ \E saved \in {buffer, ""}, t2 \in OtherTokens, voc \in VocabularyDocs :
       pages = [p \in Pages |->
                  IF p = "p1" THEN saved
                  ELSE IF p = "p2" THEN "[" \o t2 \o "] w"
                  ELSE voc]
  /\ store = indexOfPages(pages, Pages)
  /\ idleCycle
  /\ passes = [p \in Pages |-> <<>>]
  /\ result = <<>>
  /\ mqIdle

Next ==
  \/ \E pos \in 0..MaxPos : taskCycleAtPos(pos)
  \/ processWikiLink
  \/ writeReference

Spec == Init /\ [][Next]_vars

\* ------------------------------------------------------------------------
\* Indexing and querying pages whose tasks carry deadlines, tags, attributes
\* ------------------------------------------------------------------------
MaxTags == 2

IndexTokens == {" ", "x", "X", "-"}

Deadlines == {"", " ~ 24", " ~9"}

TagNames == <<"t", "u", "v">>

RECURSIVE renderTags(_)
renderTags(n) ==
  IF n = 0 THEN "" ELSE renderTags(n - 1) \o " #" \o TagNames[n]

Attributes == {"", " prio:: hi", " pos:: 7", " done:: true", " name:: zz"}

SecondLines == {"", "\n[-] w page:: q", "\n [-] ~ 9"}

\* texts of p1: a task with a word, an optional deadline, tags, an optional
\* attribute, and an optional second task, after it or nested in it
TaskDocs ==
  {"[" \o tok \o "] w" \o d \o renderTags(n) \o a \o l :
     tok \in IndexTokens, d \in Deadlines, n \in 0..MaxTags,
     a \in Attributes, l \in SecondLines}

\* the editor saves the open page (a document change, external)
savePage ==
  /\ pc = "idle"
  /\ pages[currentPage] # buffer
  /\ pages' = [pages EXCEPT ![currentPage] = buffer]
  /\ UNCHANGED <<currentPage, buffer, store, log, hist, passes, result, cycleVars,
                 mqVars>>

InitIndex ==
  /\ currentPage = "p1"
  /\ buffer = "[-] a\n[-] b #t\n[/]"
  /\ \E d1 \in TaskDocs, d2 \in {"[x] w", "[-] w pos:: 3"} :
       pages = [p \in Pages |-> IF p = "p1" THEN d1 ELSE IF p = "p2" THEN d2 ELSE ""]
  /\ store = <<>>
  /\ idleCycle
  /\ passes = [p \in Pages |-> <<>>]
  /\ result = <<>>
  /\ mqIdle

NextIndex ==
  \/ \E name \in Pages : indexTasks(name)
  \/ queryProvider
  \/ savePage

SpecIndex == InitIndex /\ [][NextIndex]_vars

\* ------------------------------------------------------------------------
\* Cycling and indexing interleaved: clicks and the command on the open page,
\* saves of the open page, index passes over the stored pages
\* ------------------------------------------------------------------------
AllTokens == {"x", "-", "x:y"}

AllLinkSeqs == {<<>>, <<"p2", "p2@0">>, <<"p1@0", "p2@2">>}

AllVocabularyDocs == {"[-]\n[/]", "[x:y]\n[-]"}

\* As Init, with nothing indexed and the open page not saved yet.
InitAll ==
  /\ currentPage = "p1"
  /\ \E t1 \in OtherTokens, tok \in AllTokens, refs \in AllLinkSeqs :
       buffer = "[" \o t1 \o "]\n[" \o tok \o "]" \o renderLinks(refs)
  /\ \E voc \in AllVocabularyDocs :
       pages = [p \in Pages |->
                  IF p = "p1" THEN ""
                  ELSE IF p = "p2" THEN "[-] w"
                  ELSE voc]
  /\ store = <<>>
  /\ idleCycle
  /\ passes = [p \in Pages |-> <<>>]
  /\ result = <<>>
  /\ mqIdle

NextAll ==
  \/ \E pos \in 0..MaxPos : taskCycleAtPos(pos)
  \/ \E cursor \in 0..MaxPos : taskCycleCommand(cursor)
  \/ processWikiLink
  \/ writeReference
  \/ \E name \in Pages : indexTasks(name)
  \/ savePage

SpecAll == InitAll /\ [][NextAll]_vars

\* index passes and cycles whose storage calls may fail
FailLinkSeqs == {<<"p2@0">>, <<"p1@0", "p2@0", "p2@0">>}

InitFail ==
  /\ currentPage = "p1"
  /\ \E refs \in FailLinkSeqs :
       buffer = "[x]\n[x]" \o renderLinks(refs)
  /\ \E d2 \in {"[x] w", "[-] w prio:: hi", "w"} :
       pages = [p \in Pages |->
                  IF p = "p1" THEN buffer ELSE IF p = "p2" THEN d2 ELSE "[/]"]
  /\ store = <<>>
  /\ idleCycle
  /\ passes = [p \in Pages |-> <<>>]
  /\ result = <<>>
  /\ mqIdle

NextFail ==
  \/ \E pos \in 0..MaxPos : taskCycleAtPos(pos)
  \/ processWikiLink
  \/ readPageFails
  \/ writeReference
  \/ writePageFails
  \/ \E name \in Pages : indexTasks(name)
  \/ \E name \in Pages, failing \in 1..3 : indexTasksFails(name, failing)

SpecFail == InitFail /\ [][NextFail]_vars

\* what another writer appends to a page
OtherChange == "\nz"

\* another operation writes a stored page while a cycle is in progress (at
\* most once per cycle); nothing in cycleTaskState excludes it
otherWrite(page) ==
  /\ pc # "idle"
  /\ page # currentPage
  /\ \A n \in 1..Len(log) : log[n].op # "otherWrite"
  /\ pages' = [pages EXCEPT ![page] = @ \o OtherChange]
  /\ log' = Append(log, effect("otherWrite", li, page, Len(pages[page]),
                               Len(pages[page]), OtherChange, pages[page]))
  /\ UNCHANGED <<currentPage, buffer, store, hist, passes, result, cycleVars,
                 mqVars>>

\* the cycle engine next to another writer of the stored pages
NextRace ==
  \/ \E pos \in 0..MaxPos : taskCycleAtPos(pos)
  \/ processWikiLink
  \/ writeReference
  \/ \E page \in Pages : otherWrite(page)

SpecRace == InitAll /\ [][NextRace]_vars

\* the entry points of the cycle engine alone, before any index pass
NextEntry ==
  \/ \E pos \in 0..MaxPos : taskCycleAtPos(pos)
  \/ \E cursor \in 0..MaxPos : taskCycleCommand(cursor)
  \/ processWikiLink
  \/ writeReference

SpecEntry == InitAll /\ [][NextEntry]_vars

\* ------------------------------------------------------------------------
\* MQHook (mq.ts 17-91): subscriptions of plug functions to message queues
\* ------------------------------------------------------------------------
MaxApply == 2

MaxSubscribed == 5

MaxDeliveries == 2

\* the state of the task plug, which the hook does not touch
taskVars == <<currentPage, buffer, pages, store, log, hist, passes, result,
              cycleVars>>

\* the plugs the system may load
PlugNames == {"a", "b", "c"}

\* plugs without a manifest
NoManifest == {"b"}

\* plug.manifest.functions, in the order of Object.entries; a function
\* without mqSubscriptions has none to iterate over
Functions ==
  [a |-> <<[name |-> "f",
            mqSubscriptions |-> <<[queue |-> "q1", batchSize |-> 1, autoAck |-> TRUE],
                                  [queue |-> "q2", batchSize |-> 2, autoAck |-> FALSE]>>],
           [name |-> "g", mqSubscriptions |-> <<>>]>>,
   b |-> <<>>,
   c |-> <<[name |-> "h",
            mqSubscriptions |-> <<[queue |-> "q1", batchSize |-> 2, autoAck |-> FALSE]>>]>>]

\* fullQueueName(plugName, queueName)
fullQueueName(plugName, queueName) == plugName \o "." \o queueName

RECURSIVE concatAll(_)
concatAll(ss) == IF ss = <<>> THEN <<>> ELSE ss[1] \o concatAll(Tail(ss))

\* what the loop over functionDef.mqSubscriptions subscribes for one function
\* of a plug: the queue, and what the callback closes over
subscribeFunction(plug, functionDef) ==
  map([j \in 1..Len(functionDef.mqSubscriptions) |->
        [plug |-> plug, name |-> functionDef.name,
         queue |-> fullQueueName(plug, functionDef.mqSubscriptions[j].queue),
         batchSize |-> functionDef.mqSubscriptions[j].batchSize,
         autoAck |-> functionDef.mqSubscriptions[j].autoAck,
         unsubscribed |-> 0]])

\* the loop over the functions of one loaded plug
subscribePlug(plug) ==
  IF plug \in NoManifest THEN <<>>
  ELSE concatAll(map([i \in 1..Len(Functions[plug]) |->
                       subscribeFunction(plug, Functions[plug][i])]))

\* the loop over system.loadedPlugs.values()
subscribeAll(loaded) ==
  concatAll(map([i \in 1..Len(loaded) |-> subscribePlug(loaded[i])]))

\* how often the callback of subscription i stands in the list subs
held(subs, i) == Cardinality({k \in 1..Len(subs) : subs[k] = i})

\* stop(): every callback of the list is called, the list is emptied
stopOn(h) ==
  [subscriptions |-> <<>>,
   subscribed |->
     [i \in 1..Len(h.subscribed) |->
        [h.subscribed[i] EXCEPT
           !.unsubscribed = @ + held(h.subscriptions, i)]]]

\* reloadQueues() that subscribes without stop() first
reloadOn_keeps(h, loaded) ==
  [subscriptions |->
     h.subscriptions \o
     [k \in 1..Len(subscribeAll(loaded)) |-> Len(h.subscribed) + k],
   subscribed |-> h.subscribed \o subscribeAll(loaded)]

\* reloadQueues(): stop(), then one subscription per declaration of every
\* loaded plug that has a manifest, pushed in order
reloadOn(h, loaded) ==
  [subscriptions |->
     [k \in 1..Len(subscribeAll(loaded)) |-> Len(h.subscribed) + k],
   subscribed |-> stopOn(h).subscribed \o subscribeAll(loaded)]

RECURSIVE reloadTimes(_, _, _)
\* the handlers of n apply calls, each running reloadQueues()
reloadTimes(h, loaded, n) ==
  IF n = 0 THEN h ELSE reloadTimes(reloadOn(h, loaded), loaded, n - 1)

\* the hook's list and the queue's subscriptions
hookState == [subscriptions |-> subscriptions, subscribed |-> subscribed]

\* the hook passes to the state h
becomes(h) ==
  /\ Len(h.subscribed) <= MaxSubscribed
  /\ subscriptions' = h.subscriptions
  /\ subscribed' = h.subscribed

\* apply(system): registers the handlers of plugLoaded and plugUnloaded,
\* then reloadQueues()
apply ==
  /\ handlers < MaxApply
  /\ handlers' = handlers + 1
  /\ becomes(reloadOn(hookState, loadedPlugs))
  /\ UNCHANGED <<loadedPlugs, mqLog, taskVars>>

\* stop()
stop ==
  /\ becomes(stopOn(hookState))
  /\ UNCHANGED <<handlers, loadedPlugs, mqLog, taskVars>>

\* reloadQueues()
reloadQueues ==
  /\ becomes(reloadOn(hookState, loadedPlugs))
  /\ UNCHANGED <<handlers, loadedPlugs, mqLog, taskVars>>

\* the system loads a plug and emits plugLoaded to the registered handlers
plugLoaded(plug) ==
  /\ \A i \in 1..Len(loadedPlugs) : loadedPlugs[i] # plug
  /\ loadedPlugs' = Append(loadedPlugs, plug)
  /\ becomes(reloadTimes(hookState, loadedPlugs', handlers))
  /\ UNCHANGED <<handlers, mqLog, taskVars>>

\* the system unloads a plug and emits plugUnloaded to the registered
\* handlers
plugUnloaded(plug) ==
  /\ \E i \in 1..Len(loadedPlugs) : loadedPlugs[i] = plug
  /\ loadedPlugs' = SelectSeq(loadedPlugs, LAMBDA q : q # plug)
  /\ becomes(reloadTimes(hookState, loadedPlugs', handlers))
  /\ UNCHANGED <<handlers, mqLog, taskVars>>

\* batches of message ids the queue may deliver
Batches == {<<"m1">>, <<"m1", "m2">>}

\* an entry of mqLog for the batch ids delivered to subscription sub
mqEffect(op, sub, ids, ok) ==
  [op |-> op, sub |-> sub, queue |-> subscribed[sub].queue,
   name |-> subscribed[sub].name, ids |-> ids, ok |-> ok]

\* the callback without try / catch: an error rejects the callback's promise
callback_uncaught(sub, ids, invokeOk, ackOk) ==
  <<mqEffect("invoke", sub, ids, invokeOk)>>
  \o (IF invokeOk /\ subscribed[sub].autoAck
      THEN <<mqEffect("batchAck", sub, ids, ackOk)>> ELSE <<>>)
  \o <<mqEffect("settled", sub, ids,
                invokeOk /\ (subscribed[sub].autoAck => ackOk))>>

\* the subscription callback (mq.ts 67-85) for a batch: plug.invoke, then
\* mq.batchAck when autoAck is set; an error of either is caught and logged,
\* the callback's promise resolves
callback(sub, ids, invokeOk, ackOk) ==
  <<mqEffect("invoke", sub, ids, invokeOk)>>
  \o (IF invokeOk /\ subscribed[sub].autoAck
      THEN <<mqEffect("batchAck", sub, ids, ackOk)>> ELSE <<>>)
  \o (IF invokeOk /\ (subscribed[sub].autoAck => ackOk)
      THEN <<>> ELSE <<mqEffect("console.error", sub, ids, TRUE)>>)
  \o <<mqEffect("settled", sub, ids, TRUE)>>

\* the deliveries made so far
deliveries == Cardinality({n \in 1..Len(mqLog) : mqLog[n].op = "invoke"})

\* the queue delivers a batch to a subscription that is not unsubscribed;
\* the plug function and the acknowledgement may each fail
deliver(sub, ids, invokeOk, ackOk) ==
  /\ deliveries < MaxDeliveries
  /\ sub \in 1..Len(subscribed)
  /\ subscribed[sub].unsubscribed = 0
  /\ Len(ids) <= subscribed[sub].batchSize
  /\ mqLog' = mqLog \o callback(sub, ids, invokeOk, ackOk)
  /\ UNCHANGED <<handlers, loadedPlugs, subscriptions, subscribed, taskVars>>

InitMQ ==
  /\ currentPage = "p1"
  /\ buffer = ""
  /\ pages = [p \in Pages |-> ""]
  /\ store = <<>>
  /\ idleCycle
  /\ passes = [p \in Pages |-> <<>>]
  /\ result = <<>>
  /\ mqIdle

NextMQ ==
  \/ apply
  \/ stop
  \/ reloadQueues
  \/ \E plug \in PlugNames : plugLoaded(plug)
  \/ \E plug \in PlugNames : plugUnloaded(plug)
  \/ \E sub \in 1..MaxSubscribed, ids \in Batches, invokeOk \in BOOLEAN,
        ackOk \in BOOLEAN : deliver(sub, ids, invokeOk, ackOk)

SpecMQ == InitMQ /\ [][NextMQ]_vars

\* ------------------------------------------------------------------------
\* Properties of the cycle engine
\* ------------------------------------------------------------------------
\* the offset a ref "page@offset" names
refPos(ref) == toNumber(split(ref, "@")[2])

BinaryStates == {" ", "x", "X"}

\* C1: when backlink N is found stale, the failure is reported and the
\* backlinks after N are still processed: once the call is over, the loop
\* has passed every "page@offset" link that follows a link reported stale.
C1_StaleBacklinkDoesNotHalt ==
  pc = "idle" =>
    \A n \in 1..Len(log) :
      (log[n].op = "error" /\ log[n].link > 0) =>
        \A k \in (log[n].link + 1)..Len(wikiLinks) :
          includes(wikiLinks[k], "@") => li > k

\* C2: a backlink occurrence, in the open page or in a stored page, is
\* written only if the text at offset + 1, of the length of the old state
\* token, equals the old token when it is checked.
C2_WriteOnlyOnMatch ==
  \A n \in 1..Len(log) :
    (log[n].op \in {"dispatch", "writePage"} /\ log[n].link > 0) =>
      LET pos == refPos(wikiLinks[log[n].link])
      IN  substring(log[n].before, pos + 1, pos + 1 + Len(stateText)) = stateText

\* C3, as claimed: "x" and "X" change to " ", " " changes to "x", and for
\* every binary starting token two cycles of the same task in succession
\* return the token to the original one.
C3_TwoCyclesRestore ==
  /\ \A k \in 1..Len(hist) :
       /\ hist[k].stateText \in {"x", "X"} => hist[k].changeTo = " "
       /\ hist[k].stateText = " " => hist[k].changeTo = "x"
  /\ \A k \in 1..(Len(hist) - 1) :
       (hist[k].stateText \in BinaryStates /\ hist[k + 1].from = hist[k].from) =>
         /\ hist[k + 1].stateText = hist[k].changeTo
         /\ hist[k + 1].changeTo = hist[k].stateText

\* C3, amended: "x" and "X" change to " ", " " changes to "x"; two cycles of
\* the same task in succession return " " and "x" to the original token,
\* and take "X" to "x".
C3_BinaryToggle ==
  /\ \A k \in 1..Len(hist) :
       /\ hist[k].stateText \in {"x", "X"} => hist[k].changeTo = " "
       /\ hist[k].stateText = " " => hist[k].changeTo = "x"
  /\ \A k \in 1..(Len(hist) - 1) :
       (hist[k].stateText \in BinaryStates /\ hist[k + 1].from = hist[k].from) =>
         /\ hist[k + 1].stateText = hist[k].changeTo
         /\ hist[k + 1].changeTo =
              (IF hist[k].stateText = "X" THEN "x" ELSE hist[k].stateText)

\* a task was cycled twice in succession, starting from "X"
C3_Witness ==
  /\ Len(hist) = 2
  /\ hist[1].stateText = "X"
  /\ hist[2].from = hist[1].from
  /\ hist[2].changeTo = "x"

\* the custom states recorded in the frequency table: the token of every
\* key "taskState:" + token
recordedStates ==
  {substring(k[2], Len("taskState:"), Len(k[2])) :
     k \in {q \in DOMAIN store : startsWith(q[2], "taskState:")}}

\* S[(i + 1) mod n] for the sorted list S of the recorded states
successorOf(t) ==
  LET rank(u) == Cardinality({v \in recordedStates : strLess(v, u)})
  IN  CHOOSE u \in recordedStates :
        rank(u) = (rank(t) + 1) % Cardinality(recordedStates)

\* C4: for every custom token recorded in the frequency table, also one that
\* holds ":", the cycle chooses S[(i + 1) mod n] of the sorted list S of the
\* distinct recorded tokens.
C4_CustomCycle ==
  /\ \A k \in 1..Len(hist) :
       hist[k].stateText \in recordedStates =>
         hist[k].changeTo = successorOf(hist[k].stateText)
  /\ \A n \in 1..Len(log) :
       log[n].text = "Unknown state" =>
         substring(log[n].before, log[n].from, log[n].to) \notin recordedStates

\* C5: a cycle of a custom token that is absent from the states read from
\* the frequency table goes no further than the error report: every cycle
\* that went on to an edit had its token among the states read, and the step
\* that reports "Unknown state" leaves the buffer and every stored page as
\* they were, processes no backlink and has no other effect.
C5_UnknownStateAborts ==
  /\ [](\A k \in 1..Len(hist) :
          hist[k].stateText \notin BinaryStates =>
            arrayIncludes(knownStates, hist[k].stateText))
  /\ [][(log' # log /\ log' # <<>> /\ log'[1].text = "Unknown state") =>
          /\ ~arrayIncludes(knownStates,
                            substring(log'[1].before, log'[1].from, log'[1].to))
          /\ buffer' = buffer
          /\ pages' = pages
          /\ pc = "idle" /\ pc' = "idle"
          /\ log'[1].op = "error"
          /\ Len(log') = 1]_vars

\* a cycle was aborted on a token that no key of the frequency table records
C5_Witness ==
  /\ pc = "idle"
  /\ Len(log) = 1
  /\ log[1].text = "Unknown state"
  /\ substring(log[1].before, log[1].from, log[1].to) \notin recordedStates

\* ------------------------------------------------------------------------
\* Properties of indexing and querying
\* ------------------------------------------------------------------------
\* the passes over page p, as <<p, k>>
PassesOf(p) == {<<p, k>> : k \in 1..Len(passes[p])}

AllPasses == UNION {PassesOf(p) : p \in Pages}

passOf(pk) == passes[pk[1]][pk[2]]

\* the store holds, under the page, every entry of the batch
holdsBatch(p, kvs) ==
  \A i \in 1..Len(kvs) :
    <<p, kvs[i].key>> \in DOMAIN store /\ store[<<p, kvs[i].key>>] = kvs[i].value

\* C6: two passes over the same page with the same text write the same
\* records with the same values, the state counts of the second pass are
\* those of the first, and the store holds what the last pass wrote.
C6_IndexIdempotent ==
  \A p \in Pages :
    /\ \A k \in 1..(Len(passes[p]) - 1) :
         passes[p][k + 1].text = passes[p][k].text =>
           /\ passes[p][k + 1].tasks = passes[p][k].tasks
           /\ passes[p][k + 1].attrs = passes[p][k].attrs
           /\ passes[p][k + 1].states = passes[p][k].states
    /\ Len(passes[p]) > 0 =>
         /\ holdsBatch(p, passes[p][Len(passes[p])].tasks)
         /\ holdsBatch(p, passes[p][Len(passes[p])].states)

\* a page with a custom state that occurs twice was indexed twice, its text
\* unchanged in between
C6_Witness ==
  \E p \in Pages :
    /\ Len(passes[p]) = 2
    /\ passes[p][2].text = passes[p][1].text
    /\ Len(passes[p][2].tasks) = 2
    /\ \E j \in 1..Len(passes[p][2].states) : passes[p][2].states[j].value = 2

\* C7: every task record has done = TRUE exactly when its state is "x" or
\* "X", and its state is the token between the brackets.
C7_DoneIffComplete ==
  \A pk \in AllPasses :
    \A j \in 1..Len(passOf(pk).tasks) :
      /\ passOf(pk).tasks[j].value.done =
           (passOf(pk).tasks[j].value.state \in {"x", "X"})
      /\ passOf(pk).tasks[j].value.state = parseTasks(passOf(pk).text)[j].state

\* the custom states among the Task nodes
customStates(nodes) ==
  {nodes[i].state : i \in 1..Len(nodes)} \ BinaryStates

\* the batch of state records is that of the nodes: one record per custom
\* state, its value the number of nodes in that state
countsOf(states, nodes) ==
  /\ Len(states) = Cardinality(customStates(nodes))
  /\ \A c \in customStates(nodes) :
       \E j \in 1..Len(states) :
         /\ states[j].key = "taskState:" \o c
         /\ states[j].value =
              Cardinality({i \in 1..Len(nodes) : nodes[i].state = c})

\* C8: the taskState: records a pass writes are exactly the custom states of
\* the tasks of the page, each with the number of tasks in that state; the
\* binary states get no record and no record has a count below one.
C8_CustomStateCounts ==
  \A pk \in AllPasses : countsOf(passOf(pk).states, parseTasks(passOf(pk).text))

\* a page with a complete task and a custom state was indexed, and so was a
\* page where a custom state occurs twice
C8_Witness ==
  /\ \E pk \in AllPasses :
       /\ Len(passOf(pk).states) > 0
       /\ \E j \in 1..Len(passOf(pk).tasks) : passOf(pk).tasks[j].value.state = "x"
  /\ \E pk \in AllPasses :
       \E j \in 1..Len(passOf(pk).states) : passOf(pk).states[j].value = 2

\* the children of the given type, as positions in kids
ofType(kids, type) == {i \in 1..Len(kids) : kids[i].type = type}

\* the texts of the hashtags among kids[i..], without "#", in order
RECURSIVE tagsFrom(_, _)
tagsFrom(kids, i) ==
  IF i > Len(kids) THEN <<>>
  ELSE IF kids[i].type = "Hashtag"
       THEN <<substring(kids[i].text, 1, Len(kids[i].text))>> \o tagsFrom(kids, i + 1)
       ELSE tagsFrom(kids, i + 1)

\* the record v of a task with the children kids holds what was extracted
extracted(v, kids) ==
  /\ ofType(kids, "DeadlineDate") # {} =>
       /\ "deadline" \in DOMAIN v
       /\ \E i \in ofType(kids, "DeadlineDate"), pad \in {"", " "} :
            kids[i].text = Glyph \o pad \o v.deadline
       /\ ~includes(v.deadline, " ")
       /\ ~includes(v.name, Glyph)
  /\ \A i \in ofType(kids, "Attribute") :
       /\ attributeName(kids[i].text) \in DOMAIN v
       /\ v[attributeName(kids[i].text)] =
            attributeValue(substring(kids[i].text,
                                     Len(attributeName(kids[i].text)) + 3,
                                     Len(kids[i].text)))
       /\ ~includes(v.name, kids[i].text)
  /\ ofType(kids, "Hashtag") # {} =>
       /\ "tags" \in DOMAIN v
       /\ v.tags = tagsFrom(kids, 1)
       /\ \A i \in ofType(kids, "Hashtag") : includes(v.name, kids[i].text)
  /\ (/\ ofType(kids, "DeadlineDate") = {}
      /\ ofType(kids, "Attribute") = {}
      /\ ofType(kids, "Hashtag") = {}) =>
       /\ {"name", "done", "state"} \subseteq DOMAIN v
       /\ DOMAIN v \subseteq {"name", "done", "state", "nested"}

\* C9: every deadline of a task is stored as its date text, without the
\* glyph and the white space, and removed from the name; every attribute is
\* copied into the record under its name and removed from the name; every
\* hashtag is appended to tags without "#" and stays in the name; a task
\* without any of them has only name, done, state and, if nested, nested.
C9_Extraction ==
  \A pk \in AllPasses :
    \A j \in 1..Len(passOf(pk).tasks) :
      extracted(passOf(pk).tasks[j].value,
                taskChildren(passOf(pk).text, parseTasks(passOf(pk).text)[j]))

\* the keys of the task records in the store st
TaskKeys(st) == {k \in DOMAIN st : startsWith(k[2], "task:")}

\* res holds one record per task record of st: the stored fields, with page
\* the page of the record and pos the number after "task:" in its key
decorated(res, st) ==
  /\ Len(res) = Cardinality(TaskKeys(st))
  /\ \A k \in TaskKeys(st) :
       \E i \in 1..Len(res) :
         /\ res[i].page = k[1]
         /\ "task:" \o numToString(res[i].pos) = k[2]
         /\ DOMAIN res[i] = (DOMAIN st[k]) \cup {"page", "pos"}
         /\ \A f \in (DOMAIN st[k]) \ {"page", "pos"} : res[i][f] = st[k][f]

\* C10: the query provider never writes to the index, and every record it
\* hands on has page and pos taken from the page annotation and the key of
\* the stored record, also when the stored value has fields of these names.
C10_QueryReadOnly ==
  [][queryProvider => (store' = store /\ decorated(result', store))]_vars

\* the query returned a record whose stored value has a pos of its own,
\* other than the position in its key
C10_Witness ==
  \E k \in TaskKeys(store) :
    /\ "pos" \in DOMAIN store[k]
    /\ \E i \in 1..Len(result) :
         /\ result[i].page = k[1]
         /\ "task:" \o numToString(result[i].pos) = k[2]
         /\ result[i].pos # store[k].pos

\* the step starts a cycle: it rewrites the owning occurrence
ownerStep == hist' # hist

\* C14: the effects of one cycle are strictly ordered.  The step that starts
\* the cycle makes exactly one dispatch, which replaces exactly the state
\* text between the brackets of the cycled task by the successor, and
\* collects the task's wiki links in the order of the text; no call edits
\* anything before that dispatch.  Every later effect belongs to a
\* backlink; the log only grows, by the effects of the
\* link the loop stands at, so the backlinks are handled one after the other
\* in document order, each one's check and write before the next one's; a
\* link without "@" is passed over without a read, a write or any effect.
C14_EffectOrder ==
  /\ [][ownerStep =>
          LET e == hist'[Len(hist')]
              d == log'[1]
          IN  /\ Len(log') = 1
              /\ d.op = "dispatch" /\ d.link = 0
              /\ d.from = e.from + 1
              /\ d.to = d.from + Len(e.stateText)
              /\ substring(buffer, d.from, d.to) = e.stateText
              /\ charAt(buffer, d.to) = "]"
              /\ d.text = e.changeTo
              /\ buffer' = substring(buffer, 0, d.from) \o e.changeTo
                             \o substring(buffer, d.to, Len(buffer))
              /\ renderLinks(wikiLinks') =
                   substring(buffer, d.to + 1, lineEnd(buffer, d.to))]_vars
  /\ [][(pc = "idle" /\ ~ownerStep) =>
          (buffer' = buffer /\ pages' = pages)]_vars
  /\ [][(pc # "idle" /\ log' # log) =>
          /\ Len(log') > Len(log)
          /\ SubSeq(log', 1, Len(log)) = log
          /\ \A n \in (Len(log) + 1)..Len(log') : log'[n].link = li]_vars
  /\ [][(pc = "loop" /\ ~includes(wikiLinks[li], "@")) =>
          /\ li' = li + 1
          /\ log' = log /\ readText' = readText
          /\ pages' = pages /\ buffer' = buffer]_vars
  /\ [](\A n \in 1..Len(log) :
          /\ n > 1 => (log[n].link >= 1 /\ log[n].link >= log[n - 1].link)
          /\ log[n].link >= 1 =>
               /\ includes(wikiLinks[log[n].link], "@")
               /\ log[n].link <= li
               /\ pc = "loop" => log[n].link < li)

\* a cycle rewrote the owning occurrence, passed over a link without "@" and
\* then wrote the page of the second link
C14_Witness ==
  /\ Len(log) = 3
  /\ Len(wikiLinks) = 2
  /\ ~includes(wikiLinks[1], "@")
  /\ log[1].op = "dispatch" /\ log[1].link = 0
  /\ log[2].op = "writePage" /\ log[2].link = 2
  /\ pc = "idle"

\* the page a ref "page@offset" names
refPage(ref) == split(ref, "@")[1]

\* the text after differs from the text before only in the state token
\* [from, to) between its brackets, which now reads token
onlyTokenDiffers(before, after, from, to, token) ==
  /\ 0 < from /\ from <= to /\ to < Len(before)
  /\ charAt(before, from - 1) = "[" /\ charAt(before, to) = "]"
  /\ \A j \in from..(to - 1) : charAt(before, j) \notin {"[", "]", "\n"}
  /\ after = substring(before, 0, from) \o token \o substring(before, to, Len(before))

\* C15: the step for a backlink into another page, once the page is read.
\* If the node at offset + 1 of the text read is a task state, the step
\* writes that page once, with the text read changed only in the state
\* token, and then schedules one file sync of that page's file; otherwise it
\* writes nothing and schedules nothing.  Pages are written in no other
\* step, every sync directly follows its write, a backlink has at most one
\* write, and backlinks into the open page have neither write nor sync.
C15_RemoteStep ==
  /\ [][pc = "remote" =>
          LET ref == wikiLinks[li]
              n == Len(log)
          IN  IF nodeAtPos(readText, refPos(ref) + 1).type = "TaskState"
              THEN /\ Len(log') = n + 2
                   /\ SubSeq(log', 1, n) = log
                   /\ log'[n + 1].op = "writePage"
                   /\ log'[n + 1].page = refPage(ref)
                   /\ log'[n + 1].link = li
                   /\ onlyTokenDiffers(readText, log'[n + 1].text,
                                       log'[n + 1].from, log'[n + 1].to, changeTo)
                   /\ log'[n + 1].from <= refPos(ref) + 1
                   /\ refPos(ref) + 1 <= log'[n + 1].to
                   /\ pages' = [pages EXCEPT ![refPage(ref)] = log'[n + 1].text]
                   /\ log'[n + 2].op = "scheduleFileSync"
                   /\ log'[n + 2].page = refPage(ref) \o ".md"
                   /\ log'[n + 2].link = li
              ELSE /\ pages' = pages
                   /\ Len(log') = n + 1
                   /\ log'[n + 1].op = "error"]_vars
  /\ [][pages' # pages => pc = "remote"]_vars
  /\ [](\A n \in 1..Len(log) :
          /\ log[n].op = "writePage" =>
               /\ n < Len(log) /\ log[n + 1].op = "scheduleFileSync"
               /\ refPage(wikiLinks[log[n].link]) # pageName
               /\ \A m \in 1..Len(log) :
                    (log[m].op = "writePage" /\ log[m].link = log[n].link) => m = n
          /\ log[n].op = "scheduleFileSync" =>
               (n > 1 /\ log[n - 1].op = "writePage")
          /\ (log[n].link >= 1 /\ refPage(wikiLinks[log[n].link]) = pageName) =>
               log[n].op \in {"dispatch", "error"})

\* a cycle rewrote a backlink in the open page, then wrote the page of a
\* second backlink and scheduled its sync
C15_Witness ==
  /\ Len(log) = 4
  /\ log[2].op = "dispatch" /\ log[2].link = 1
  /\ log[3].op = "writePage" /\ log[3].link = 2
  /\ log[3].text # log[3].before
  /\ log[4].op = "scheduleFileSync"
  /\ pages[log[3].page] = log[3].text

\* ------------------------------------------------------------------------
\* Properties of cycling interleaved with indexing
\* ------------------------------------------------------------------------
\* a step of the cycle engine: an entry point was called or the backlink
\* loop advanced
cycleStep == log' # log \/ pc' # pc \/ li' # li \/ hist' # hist

\* C11: no step of the cycle engine (a click, the command, an iteration of
\* the backlink loop; cycling, aborting or meeting a stale reference) changes
\* the index store: its task: and taskState: records stay as the last index
\* pass left them, whatever the step does to the buffer and the pages.
C11_CycleLeavesIndex == [][cycleStep => store' = store]_vars

\* a cycle rewrote the open page and another page while the index held
\* task records and state counts
C11_Witness ==
  /\ \E k \in DOMAIN store : startsWith(k[2], "task:")
  /\ \E k \in DOMAIN store : startsWith(k[2], "taskState:")
  /\ \E n \in 1..Len(log) : log[n].op = "writePage"
  /\ \E n \in 1..Len(log) : log[n].op = "dispatch"

\* C17: cycling stays inside the class of the token.  A cycle of " ", "x"
\* or "X" chooses " " or "x"; a cycle of any other token chooses a token the
\* frequency table records at that moment, which is none of " ", "x", "X";
\* and the index never holds a key "taskState:" + binary token.
C17_ClassesClosed ==
  /\ [][hist' # hist =>
          LET e == hist'[Len(hist')]
          IN  IF e.stateText \in BinaryStates
              THEN e.changeTo \in {" ", "x"}
              ELSE /\ e.changeTo \notin BinaryStates
                   /\ e.changeTo \in recordedStates]_vars
  /\ [](recordedStates \cap BinaryStates = {})

\* C18: no lost update.  What another operation wrote to a page during a
\* cycle is still in the text the resolver writes to that page afterwards.
C18_NoLostUpdate ==
  \A m \in 1..Len(log) : \A n \in (m + 1)..Len(log) :
    (/\ log[m].op = "otherWrite"
     /\ log[n].op = "writePage"
     /\ log[n].page = log[m].page)
    => includes(log[n].text, log[m].text)

\* the click at pos meets no task state
missingAtPos(pos) ==
  nodeAtPos(buffer, pos).type \notin {"TaskState", "TaskMarker"}

\* the command with the cursor at pos finds no node or no enclosing Task
missingAtCursor(pos) == nodeAtCursor(buffer, pos).task = 0

\* the call surfaced a notification
notified(l) == \E n \in 1..Len(l) : l[n].op = "flashNotification"

\* C12 as stated: an entry point that finds no task state changes neither
\* the buffer nor a page, reports no error and surfaces a notification.
C12_MissingNodeNotifies ==
  [][\A pos \in 0..MaxPos :
       (\/ taskCycleAtPos(pos) /\ missingAtPos(pos)
        \/ taskCycleCommand(pos) /\ missingAtCursor(pos))
       => /\ buffer' = buffer
          /\ pages' = pages
          /\ \A n \in 1..Len(log') : log'[n].op # "error"
          /\ notified(log')]_vars

\* C12: an entry point that finds no task state changes neither the buffer
\* nor a page and reports no error; the command surfaces exactly one
\* notification, "No task at cursor", while a click has no effect at all.
C12_MissingNode ==
  [][\A pos \in 0..MaxPos :
       /\ (taskCycleAtPos(pos) /\ missingAtPos(pos))
            => (buffer' = buffer /\ pages' = pages /\ log' = <<>>)
       /\ (taskCycleCommand(pos) /\ missingAtCursor(pos))
            => /\ buffer' = buffer
               /\ pages' = pages
               /\ Len(log') = 1
               /\ log'[1].op = "flashNotification"
               /\ log'[1].text = "No task at cursor"]_vars

\* after a cycle, a click beside every task came back without any effect
C12_Witness ==
  /\ pc = "idle"
  /\ hist # <<>>
  /\ log = <<>>

\* ------------------------------------------------------------------------
\* Properties of failing storage calls
\* ------------------------------------------------------------------------
\* the last pass over the page ended with the failure of its n-th write
failedAt(ps, name, n) ==
  /\ ps[name] # <<>>
  /\ "failed" \in DOMAIN ps[name][Len(ps[name])]
  /\ ps[name][Len(ps[name])].failed = n

\* C13: a storage failure ends the operation where it happens.  A pass whose
\* batchSet of the task records throws writes nothing to the index, neither
\* the attribute index nor the state counts.  A readPage or writePage that
\* throws for a backlink is the last effect of the cycle: the loop is left,
\* no page is written and no sync scheduled for that backlink, and the buffer
\* and the pages keep the edits made before.
C13_StorageFailureAborts ==
  /\ [][\A name \in Pages :
          (passes'[name] # passes[name] /\ failedAt(passes', name, 1))
            => store' = store]_vars
  /\ [][(log' # log /\ log' # <<>> /\ log'[Len(log')].op = "throw") =>
          /\ log' = Append(log, log'[Len(log')])
          /\ pc' = "idle"
          /\ buffer' = buffer
          /\ pages' = pages]_vars
  /\ [](\A n \in 1..Len(log) :
          log[n].op = "throw" =>
            /\ n = Len(log)
            /\ pc = "idle"
            /\ \A m \in 1..Len(log) :
                 log[m].link = log[n].link =>
                   log[m].op \notin {"writePage", "scheduleFileSync"})

\* a pass over a page with tasks failed at its first write and left the
\* index without the page's state counts, and the cycle of a task with two
\* backlinks into another page wrote the page for the first and failed for
\* the second
C13_Witness ==
  /\ failedAt(passes, "p2", 1)
  /\ passes["p2"][Len(passes["p2"])].states # <<>>
  /\ \A k \in DOMAIN store : k[1] # "p2"
  /\ \E n \in 1..Len(log) : log[n].op = "throw" /\ log[n].link = 3
  /\ \E n \in 1..Len(log) : log[n].op = "writePage" /\ log[n].link = 2

\* ------------------------------------------------------------------------
\* Properties of one index pass
\* ------------------------------------------------------------------------
\* the offsets of the text t where a task starts: an opening bracket with
\* nothing but blanks between it and the start of its line
taskStarts(t) ==
  {i \in 0..(Len(t) - 1) :
     /\ charAt(t, i) = "["
     /\ \E ls \in 0..i :
          /\ (ls = 0 \/ charAt(t, ls - 1) = "\n")
          /\ \A j \in ls..(i - 1) : charAt(t, j) = " "}

\* the keys of a batch
keysOf(kvs) == {kvs[i].key : i \in 1..Len(kvs)}

\* C16: the task records of one pass are as many as the Task nodes of the
\* text and their keys are "task:" followed by the start offsets of those
\* nodes, so every Task node, nested or not, has exactly one record and no
\* two records of a pass share a key; after the pass the store holds each.
C16_OneRecordPerTask ==
  \A pk \in AllPasses :
    /\ Len(passOf(pk).tasks) = Cardinality(taskStarts(passOf(pk).text))
    /\ keysOf(passOf(pk).tasks) =
         {"task:" \o numToString(i) : i \in taskStarts(passOf(pk).text)}
    /\ pk[2] = Len(passes[pk[1]]) => holdsBatch(pk[1], passOf(pk).tasks)

\* a pass over a text of two tasks, the second nested in the first
C16_Witness ==
  \E pk \in AllPasses :
    /\ Len(passOf(pk).tasks) = 2
    /\ \E i \in taskStarts(passOf(pk).text) :
         i > 0 /\ charAt(passOf(pk).text, i - 1) = " "
    /\ "nested" \in DOMAIN passOf(pk).tasks[1].value

\* ------------------------------------------------------------------------
\* Properties of the message queue hook
\* ------------------------------------------------------------------------
\* the mqSubscriptions declared: <<plug, i, j>> for the j-th subscription of
\* the i-th function of a plug that has a manifest
Declarations ==
  {d \in PlugNames \X (1..2) \X (1..2) :
     /\ d[1] \notin NoManifest
     /\ d[2] <= Len(Functions[d[1]])
     /\ d[3] <= Len(Functions[d[1]][d[2]].mqSubscriptions)}

isLoaded(plug, loaded) == \E i \in 1..Len(loaded) : loaded[i] = plug

\* the places of the list subs that hold a subscription made for d
entriesFor(d, subs, sd) ==
  {k \in 1..Len(subs) :
     /\ sd[subs[k]].plug = d[1]
     /\ sd[subs[k]].name = Functions[d[1]][d[2]].name
     /\ sd[subs[k]].queue =
          d[1] \o "." \o Functions[d[1]][d[2]].mqSubscriptions[d[3]].queue}

\* the list holds one active subscription per declaration of a loaded plug
\* and nothing else
exactFor(subs, sd, loaded) ==
  /\ \A d \in Declarations :
       Cardinality(entriesFor(d, subs, sd)) = IF isLoaded(d[1], loaded) THEN 1 ELSE 0
  /\ Len(subs) = Cardinality({d \in Declarations : isLoaded(d[1], loaded)})
  /\ \A k \in 1..Len(subs) : sd[subs[k]].unsubscribed = 0

\* a subscription is in the list at most once and not unsubscribed, or it
\* left the list and its unsubscribe callback was called exactly once
unsubscribedOnce ==
  \A i \in 1..Len(subscribed) :
    /\ held(subscriptions, i) <= 1
    /\ subscribed[i].unsubscribed = 1 - held(subscriptions, i)

\* an event of the hook other than stop
reloadEvent ==
  \/ apply
  \/ reloadQueues
  \/ \E plug \in PlugNames : plugLoaded(plug) \/ plugUnloaded(plug)

\* C19 as stated: after stop the list is empty; after every other event in
\* any sequence of apply, plugLoaded, plugUnloaded and reloadQueues it holds
\* exactly one subscription per declaration of the loaded plugs that have a
\* manifest; every earlier subscription was unsubscribed exactly once.
C19_SubscriptionsExact ==
  /\ [][/\ stop => subscriptions' = <<>>
        /\ reloadEvent =>
             exactFor(subscriptions', subscribed', loadedPlugs')]_vars
  /\ []unsubscribedOnce

\* C19: as above once apply has been called, and for apply and reloadQueues
\* themselves; while apply has not been called, a plugLoaded or plugUnloaded
\* event does not reach the hook, which keeps its list as it was.
C19_SubscriptionsAfterApply ==
  /\ [][/\ stop => subscriptions' = <<>>
        /\ (reloadEvent /\ (handlers' >= 1 \/ loadedPlugs' = loadedPlugs)) =>
             exactFor(subscriptions', subscribed', loadedPlugs')
        /\ (handlers = 0 /\ loadedPlugs' # loadedPlugs) =>
             (subscriptions' = subscriptions /\ subscribed' = subscribed)]_vars
  /\ []unsubscribedOnce

\* with the handlers registered, three plugs were loaded one after the
\* other: the list holds the three subscriptions declared, and the two of
\* the reload before were unsubscribed
C19_Witness ==
  /\ handlers = 1
  /\ Len(loadedPlugs) = 3
  /\ Len(subscriptions) = 3
  /\ \E i \in 1..Len(subscribed) : subscribed[i].unsubscribed = 1

\* the entries of mqLog that belong to the delivery whose invocation is
\* entry n: those up to its "settled" entry
settledAt(n) ==
  CHOOSE m \in n..Len(mqLog) :
    mqLog[m].op = "settled" /\ \A k \in n..(m - 1) : mqLog[k].op # "settled"

\* C20: a batch is acknowledged only directly after the invocation of the
\* plug function for that batch, only if that invocation succeeded and the
\* subscription has autoAck set, and with the queue of the subscription and
\* exactly the ids of the batch.  A failed invocation is followed by the
\* logging of the error and by no acknowledgement.  Every callback settles
\* without an error: none is propagated to the queue.
C20_AckAfterInvoke ==
  \A n \in 1..Len(mqLog) :
    /\ mqLog[n].op = "batchAck" =>
         /\ n > 1
         /\ mqLog[n - 1].op = "invoke"
         /\ mqLog[n - 1].ok
         /\ mqLog[n - 1].sub = mqLog[n].sub
         /\ mqLog[n - 1].ids = mqLog[n].ids
         /\ subscribed[mqLog[n].sub].autoAck
         /\ mqLog[n].queue = subscribed[mqLog[n].sub].queue
    /\ (mqLog[n].op = "invoke" /\ ~mqLog[n].ok) =>
         /\ mqLog[n + 1].op = "console.error"
         /\ \A k \in n..settledAt(n) : mqLog[k].op # "batchAck"
    /\ mqLog[n].op = "settled" => mqLog[n].ok

\* one batch was acknowledged after its invocation, and the invocation for
\* another batch of a subscription with autoAck failed
C20_Witness ==
  /\ \E n \in 1..Len(mqLog) : mqLog[n].op = "batchAck" /\ mqLog[n].ok
  /\ \E n \in 1..Len(mqLog) :
       /\ mqLog[n].op = "invoke" /\ ~mqLog[n].ok
       /\ subscribed[mqLog[n].sub].autoAck

====
